---- MODULE Spec2Model ----
(***************************************************************************)
(* A model of the hexbright flashlight library                             *)
(* (libraries/hexbright/hexbright.cpp, hexbright.h): the tick loop         *)
(* update(), the light ramp, the thermal governor, the button tracker, the *)
(* rear LEDs with the number printer, and the pins they drive.             *)
(*                                                                         *)
(* The target is an 8-bit AVR: int is 16 bits, unsigned long is 32 bits    *)
(* and float/double are IEEE single precision.                             *)
(***************************************************************************)
EXTENDS Integers, Sequences, FiniteSets, TLC

VARIABLES
    start_light_level,    \* int start_light_level
    end_light_level,      \* int end_light_level
    change_duration,      \* int change_duration (ticks)
    change_done,          \* int change_done (ticks)
    safe_light_level,     \* int safe_light_level, the thermal ceiling
    thermal_sensor_value, \* int thermal_sensor_value, last analogRead(APIN_TEMP)
    time_held,            \* int time_held
    released,             \* boolean released
    led_on_time,          \* int led_on_time[2]
    led_wait_time,        \* int led_wait_time[2]
    led_brightness,       \* byte led_brightness[2]
    led_pins,             \* DPIN_RLED_SW (mode and duty), DPIN_GLED (duty)
    _number,              \* long _number
    _color,               \* byte _color
    print_wait_time,      \* int print_wait_time
    pins,                 \* DPIN_PWR (mode and value), DPIN_DRV_MODE, DPIN_DRV_EN
    light_written,        \* the unsigned long most recently passed to set_light_level
    events,               \* history: the calls of the last update(), in order
    last_call,            \* the library call that produced this state
    set_light_calls,      \* history: set_light calls so far
    ticks_since_set,      \* history: update() calls since the last set_light (saturating)
    hot_ticks,            \* history: consecutive update() calls that read an overheat
    press_run,            \* history: length of the latest run of pressed ticks
    release_run,          \* history: not-pressed ticks since that run (saturating)
    idle_start,           \* history: the latest run of pressed ticks began with time_held = 0
    time_since_last,      \* millis() - last_time, the unsigned long difference update() tests
    real_since_start,     \* history: ms since the work of the latest tick began
    waited,               \* history: ms the latest update() spent in its wait loop
    gap,                  \* history: ms between the starts of the work of the latest two ticks
    late,                 \* history: the latest update() found ms_delay or more elapsed
    prev_late,            \* history: late, one update() earlier
    led_armed,            \* history: per LED, the latest set_led (ticks on, ticks wait) and the update() calls since
    printed,              \* history: <<number>> of the latest print_number call, <<>> before it
    blinks,               \* history: the set_led calls (LED, on_time) since that print_number call
    print_ticks,          \* history: update() calls since that print_number call (saturating)
    pause_ticks,          \* history: update() calls since update_number set _number to 0 (saturating)
    charge,               \* history: the two analogRead(APIN_CHARGE) and the result of the
                          \* latest get_definite_charge_state, <<>> before it
    new_vector,           \* the three doubles new_vector points to, in counts (21.3 per g)
    old_vector,           \* the three doubles old_vector points to, in counts
    down,                 \* double down[3]: the sum it was computed from, in counts, and
                          \* the two magnitudes it was divided by
    new_magnitude,        \* double new_magnitude, held as its square in counts^2
    old_magnitude,        \* double old_magnitude, held as its square in counts^2
    dp,                   \* double dp, in counts^2
    stale_axes,           \* history: the axes the latest read_accelerometer_vector skipped
    down_written,         \* history: the latest read_accelerometer_vector assigned down
    held_at_press,        \* history: time_held when the latest run of pressed ticks began
    released_at_press     \* history: button_released() when that run began

vars == <<start_light_level, end_light_level, change_duration, change_done,
          safe_light_level, thermal_sensor_value, time_held, released,
          led_on_time, led_wait_time, led_brightness, led_pins, _number, _color,
          print_wait_time, pins, light_written, events, last_call, set_light_calls,
          ticks_since_set, hot_ticks, press_run, release_run, idle_start,
          time_since_last, real_since_start, waited, gap, late, prev_late,
          led_armed, printed, blinks, print_ticks, pause_ticks, charge,
          new_vector, old_vector, down, new_magnitude, old_magnitude, dp,
          stale_axes, down_written, held_at_press, released_at_press>>

lightVars == <<start_light_level, end_light_level, change_duration, change_done>>
ledVars == <<led_on_time, led_wait_time, led_brightness, led_pins>>
numberVars == <<_number, _color, print_wait_time>>
buttonHistory == <<press_run, release_run, idle_start, held_at_press, released_at_press>>
accelVars == <<new_vector, old_vector, down, new_magnitude, old_magnitude, dp,
               stale_axes, down_written>>
clockVars == <<time_since_last, real_since_start, waited, gap, late, prev_late>>
printHistory == <<printed, blinks, print_ticks, pause_ticks>>

----------------------------------------------------------------------------
(* Program constants.                                                      *)

\* hexbright.h: #define OVERHEAT_TEMPERATURE 320 (DEBUG is DEBUG_OFF)
OVERHEAT_TEMPERATURE == 320
\* hexbright.h: #define MAX_LEVEL 1000
MAX_LEVEL == 1000
\* hexbright.h: #define MAX_LOW_LEVEL 500 (the literal 500 of set_light_level)
MAX_LOW_LEVEL == 500
\* hexbright.h: #define CURRENT_LEVEL -1
CURRENT_LEVEL == 0 - 1
\* hexbright.h: #define RLED 0, #define GLED 1
RLED == 0
GLED == 1
\* hexbright.h: #define LED_OFF 0, #define LED_WAIT 1, #define LED_ON 2
LED_OFF == 0
LED_WAIT == 1
LED_ON == 2
\* hexbright.h: #define CHARGING 1, #define BATTERY 7, #define CHARGED 3
CHARGING == 1
BATTERY == 7
CHARGED == 3
\* hexbright::hexbright(int update_delay_ms): ms_delay = update_delay_ms.
\* The header asks for 5..30 and init_hardware raises it to 9 at least.
ms_delay == 10
\* analogRead returns 10 bits
ANALOG_MAX == 1023

----------------------------------------------------------------------------
(* Bounds of the model.                                                    *)

\* ramps last 2^i ticks, i in 0..MaxDurationLog, or 0 ticks, or a negative time
MaxDurationLog == 2
\* set_led is called with on and wait times of at most MaxLedTicks ticks
MaxLedTicks == 3
\* the application stalls for at most MaxStall ms between two update() calls
MaxStall == 35
\* the button is pressed for at most this many ticks in all
MaxHeld == 6
\* the application calls set_light at most this many times
MaxSetLight == 2

----------------------------------------------------------------------------
(* C arithmetic.                                                           *)

Min(a, b) == IF a < b THEN a ELSE b
Max(a, b) == IF a > b THEN a ELSE b
Abs(a) == IF a < 0 THEN 0 - a ELSE a

\* C integer division truncates toward zero
CDiv(a, b) ==
    IF (a >= 0) = (b > 0) THEN Abs(a) \div Abs(b) ELSE 0 - (Abs(a) \div Abs(b))

\* 2^n
RECURSIVE Pow2(_)
Pow2(n) == IF n = 0 THEN 1 ELSE 2 * Pow2(n - 1)

\* (float) to int conversion of the rational num/den, den > 0: toward zero
TruncDiv(num, den) == CDiv(num, den)

\* int (16 bits) to unsigned long (32 bits), as two 16 bit halves <<high, low>>:
\* a negative int i becomes 2^32 + i
ToUnsignedLong(i) == IF i >= 0 THEN <<0, i>> ELSE <<65535, 65536 + i>>

----------------------------------------------------------------------------
(* LIGHT CONTROL                                                           *)

\* hexbright::get_light_level.  (float)change_done/change_duration is exact
\* in single precision when change_duration is a power of two, and so are the
\* product and the sum for 16 bit levels: for the durations of this model the
\* value below is the float value, converted to int by truncation.  The else
\* branch is only taken with 0 <= done < dur.
get_light_level(s, e, done, dur) ==
    IF done >= dur
    THEN e
    ELSE TruncDiv((e - s) * done + s * dur, dur)

\* mutant: the ceiling is not applied
get_safe_light_level_unclamped(s, e, done, dur, safe) ==
    get_light_level(s, e, done, dur)

\* hexbright::get_safe_light_level
get_safe_light_level(s, e, done, dur, safe) ==
    LET light_level == get_light_level(s, e, done, dur)
    IN  IF light_level > safe THEN safe ELSE light_level

\* .000000633*l^3 + .000632*l^2 + .0285*l + 3.98 converted to int, computed in
\* millionths (the part of a millionth left over never reaches the integer part)
LowDuty(l) ==
    LET cube == l * l * l
        micro == 633 * (cube \div 1000) + ((633 * (cube % 1000)) \div 1000)
                 + 632 * l * l + 28500 * l + 3980000
    IN  micro \div 1000000

\* .00000052*l^3 + .000365*l^2 + .108*l + 44.8 converted to int, l = level - 500
HighDuty(l) ==
    LET cube == l * l * l
        micro == 520 * (cube \div 1000) + ((520 * (cube % 1000)) \div 1000)
                 + 365 * l * l + 108000 * l + 44800000
    IN  micro \div 1000000

\* mutant: level 0 switches the power pin off
set_light_level_zero_off(level) ==
    IF level = <<0, 0>>
    THEN {[pwr_mode |-> "OUTPUT", pwr |-> "LOW", drv_mode |-> "LOW", drv_en |-> 0]}
    ELSE {[pwr_mode |-> "OUTPUT", pwr |-> "HIGH", drv_mode |-> "HIGH", drv_en |-> 255]}

\* mutant: the high range evaluates its cubic on level, not on level - 500
set_light_level_no_offset(level) ==
    LET on == [pwr_mode |-> "OUTPUT", pwr |-> "HIGH"]
    IN  IF level[2] <= MAX_LOW_LEVEL
        THEN {on @@ [drv_mode |-> "LOW",
                     drv_en |-> IF level[2] = 0 THEN 0 ELSE LowDuty(level[2])]}
        ELSE {on @@ [drv_mode |-> "HIGH", drv_en |-> HighDuty(level[2])]}

\* the driver pins after a write in the high range whose duty is undefined
UndefinedDrive ==
    {[pwr_mode |-> "OUTPUT", pwr |-> "HIGH", drv_mode |-> "HIGH", drv_en |-> d] :
        d \in 0..255}

\* hexbright::set_light_level(unsigned long level): the states of the driver
\* pins the call can leave.  level is <<high, low>>.  A level that came from a
\* negative int is above 2^32 - 32769: the polynomial is far outside the range
\* of int, its conversion for analogWrite(pin, int) is undefined and the duty
\* that reaches the 8 bit compare register is any value.
set_light_level(level) ==
    LET hi == level[1]
        lo == level[2]
        on == [pwr_mode |-> "OUTPUT", pwr |-> "HIGH"]
    IN  IF hi = 0 /\ lo = 0
        THEN {on @@ [drv_mode |-> "LOW", drv_en |-> 0]}
        ELSE IF hi = 0 /\ lo <= MAX_LOW_LEVEL
        THEN {on @@ [drv_mode |-> "LOW", drv_en |-> LowDuty(lo)]}
        ELSE IF hi = 0
        THEN {on @@ [drv_mode |-> "HIGH", drv_en |-> HighDuty(lo - MAX_LOW_LEVEL)]}
        ELSE UndefinedDrive

\* hexbright::adjust_light: whether this tick writes the actuator
adjust_light_writes(done, dur) == done <= dur

\* mutant: change_done++ is missing
adjust_light_done_stuck(done, dur) == done

\* hexbright::adjust_light: change_done after the call
adjust_light_done(done, dur) == IF done <= dur THEN done + 1 ELSE done

\* mutant: the ceiling is not kept at 0 or above
overheat_ceiling_no_floor(safe, temperature) ==
    Min(MAX_LEVEL, safe + (OVERHEAT_TEMPERATURE - temperature))

\* mutant: the sign of the correction is inverted
overheat_ceiling_inverted(safe, temperature) ==
    Max(0, Min(MAX_LEVEL, safe + (temperature - OVERHEAT_TEMPERATURE)))

\* hexbright::overheat_protection: the new ceiling
overheat_ceiling(safe, temperature) ==
    LET sum == safe + (OVERHEAT_TEMPERATURE - temperature)
        capped == IF sum > MAX_LEVEL THEN MAX_LEVEL ELSE sum
    IN  IF capped < 0 THEN 0 ELSE capped

\* mutant: a ceiling below MAX_LEVEL restarts the ramp
overheat_done_restart(safe, done, dur) ==
    IF safe < MAX_LEVEL THEN 0 ELSE done

\* mutant: a ceiling below MAX_LEVEL does not reopen a finished ramp
overheat_done_no_force(safe, done, dur) == done

\* hexbright::overheat_protection: change_done after the call, given the new
\* ceiling ("if safe_light_level has changed, guarantee a light adjustment")
overheat_done(safe, done, dur) ==
    IF safe < MAX_LEVEL THEN Min(done, dur) ELSE done

----------------------------------------------------------------------------
(* LED CONTROL                                                             *)

LEDS == {RLED, GLED}

\* mutant: an expired on counter stays at 0, so the LED is written off in every tick
adjust_leds_on_time_stays_zero(on) ==
    [i \in LEDS |-> IF on[i] > 0 THEN on[i] - 1 ELSE on[i]]

\* hexbright::adjust_leds: led_on_time after the call
adjust_leds_on_time(on) ==
    [i \in LEDS |-> IF on[i] > 0 THEN on[i] - 1
                    ELSE IF on[i] = 0 THEN on[i] - 1
                    ELSE on[i]]

\* hexbright::adjust_leds: led_wait_time after the call
adjust_leds_wait_time(on, wait) ==
    [i \in LEDS |-> IF on[i] < 0 /\ wait[i] >= 0 THEN wait[i] - 1 ELSE wait[i]]

\* hexbright::adjust_leds: the _led_on and _led_off calls of channel i
adjust_leds_calls(on, i) ==
    IF on[i] > 0 THEN <<IF i = RLED THEN "_led_on(RLED)" ELSE "_led_on(GLED)">>
    ELSE IF on[i] = 0 THEN <<IF i = RLED THEN "_led_off(RLED)" ELSE "_led_off(GLED)">>
    ELSE <<>>

\* hexbright::_led_on, hexbright::_led_off: the LED pins after update() has
\* switched the red LED off (pinMode(DPIN_RLED_SW, LOW) makes it an input) and
\* adjust_leds has run on the counters on
led_pins_after(on, brightness, before) ==
    [rled_mode |-> IF on[RLED] > 0 THEN "OUTPUT" ELSE "INPUT",
     rled |-> IF on[RLED] > 0 THEN brightness[RLED] ELSE 0,
     gled |-> IF on[GLED] > 0 THEN brightness[GLED]
              ELSE IF on[GLED] = 0 THEN 0
              ELSE before.gled]

\* mutant: the colour is never flipped
flip_color_same(color) == color

\* hexbright::flip_color
flip_color(color) == (color + 1) % 2

\* mutant: the marker 1 that is left of the number is blinked like a digit
update_number_blinks_marker(number, color, wait) ==
    LET zero == CDiv(number, 10) * 10 = number
        number1 == IF zero THEN number ELSE number - 1
        next_digit == number1 # 0 /\ number1 % 10 = 0
        wait1 == IF next_digit THEN CDiv(600, ms_delay) ELSE CDiv(300, ms_delay)
    IN  IF number > 0 /\ wait = 0 /\ number = 1
        THEN [number |-> 0, color |-> color, wait |-> CDiv(2500, ms_delay), blink |-> 120]
        ELSE IF number > 0 /\ wait = 0
        THEN [number |-> IF next_digit THEN CDiv(number1, 10) ELSE number1,
              color |-> IF next_digit THEN flip_color(color) ELSE color,
              wait |-> IF wait1 # 0 THEN wait1 - 1 ELSE wait1,
              blink |-> IF zero THEN 400 ELSE 120]
        ELSE [number |-> number, color |-> color,
              wait |-> IF wait # 0 THEN wait - 1 ELSE wait, blink |-> 0]

\* hexbright::update_number: _number, _color and print_wait_time after the
\* call, and the on_time of the set_led(_color, on_time) it makes (0: none)
update_number(number, color, wait) ==
    LET zero == CDiv(number, 10) * 10 = number
        number1 == IF zero THEN number ELSE number - 1
        next_digit == number1 # 0 /\ number1 % 10 = 0
        wait1 == IF next_digit THEN CDiv(600, ms_delay) ELSE CDiv(300, ms_delay)
    IN  IF number > 0 /\ wait = 0 /\ number = 1
        THEN [number |-> 0, color |-> color, wait |-> CDiv(2500, ms_delay), blink |-> 0]
        ELSE IF number > 0 /\ wait = 0
        THEN [number |-> IF next_digit THEN CDiv(number1, 10) ELSE number1,
              color |-> IF next_digit THEN flip_color(color) ELSE color,
              wait |-> IF wait1 # 0 THEN wait1 - 1 ELSE wait1,
              blink |-> IF zero THEN 400 ELSE 120]
        ELSE [number |-> number, color |-> color,
              wait |-> IF wait # 0 THEN wait - 1 ELSE wait, blink |-> 0]

\* hexbright::set_led(led, on_time, wait_time = 100, brightness = 255) as
\* update_number calls it: the counters and the brightness after the call
set_led_on_time(on, led, on_time) == [on EXCEPT ![led] = CDiv(on_time, ms_delay)]
set_led_wait_time(wait, led, wait_time) == [wait EXCEPT ![led] = CDiv(wait_time, ms_delay)]
set_led_brightness(brightness, led, value) == [brightness EXCEPT ![led] = value]

\* mutant: a wait counter of 0 still counts as LED_WAIT
get_led_state_wait_at_zero(led) ==
    IF led_on_time[led] >= 0 THEN LED_ON
    ELSE IF led_wait_time[led] >= 0 THEN LED_WAIT
    ELSE LED_OFF

\* hexbright::get_led_state
get_led_state(led) ==
    IF led_on_time[led] >= 0 THEN LED_ON
    ELSE IF led_wait_time[led] > 0 THEN LED_WAIT
    ELSE LED_OFF

----------------------------------------------------------------------------
(* THE TICK SCHEDULER                                                      *)
(* update() reads the clock in one expression, time - last_time, an        *)
(* unsigned long difference: the model holds that difference.  Stalls stay *)
(* below 2^32 ms, so the difference is the time that really elapsed.       *)

\* mutant: the wait loop ends one millisecond early
update_wait_early(elapsed) ==
    IF elapsed < ms_delay - 1 THEN ms_delay - 1 - elapsed ELSE 0

\* hexbright::update, do { time = millis(); } while (time-last_time < ms_delay):
\* the ms spent in the loop when elapsed ms have passed since last_time
update_wait(elapsed) ==
    IF elapsed < ms_delay THEN ms_delay - elapsed ELSE 0

\* mutant: last_time += ms_delay, so a late tick leaves a debt behind
update_last_time_catch_up(elapsed, wait) == elapsed + wait - ms_delay

\* hexbright::update, last_time = time: millis() - last_time after it
update_last_time(elapsed, wait) == 0

----------------------------------------------------------------------------
(* THE NUMBER PRINTER: print_number and printing_number                    *)

\* mutant: the loop reverses the number without the leading marker, as if
\* _number started at 0
RECURSIVE reverse_without_marker(_, _, _)
reverse_without_marker(number, reversed, color) ==
    IF number > 0
    THEN reverse_without_marker(CDiv(number, 10), reversed * 10 + (number % 10),
                                flip_color(color))
    ELSE [number |-> reversed, color |-> color]
print_number_loop_no_marker(number, reversed, color) ==
    reverse_without_marker(number, 0, color)

\* hexbright::print_number, the while loop: _number and _color after it,
\* from _number = reversed and _color = color before it
RECURSIVE print_number_loop(_, _, _)
print_number_loop(number, reversed, color) ==
    IF number > 0
    THEN print_number_loop(CDiv(number, 10), reversed * 10 + (number % 10),
                           flip_color(color))
    ELSE [number |-> reversed, color |-> color]

\* mutant: the sign is kept
print_number_abs_keeps_sign(number) == number

\* hexbright::print_number: number = 0 - number when negative
print_number_abs(number) == IF number < 0 THEN 0 - number ELSE number

\* mutant: printing_number() looks at _number alone
printing_number_value_only == _number # 0

\* hexbright::printing_number
printing_number == _number # 0 \/ print_wait_time # 0

----------------------------------------------------------------------------
(* CHARGING                                                                *)

\* the C operator & on non-negative ints
RECURSIVE BitAnd(_, _)
BitAnd(a, b) ==
    IF a = 0 \/ b = 0 THEN 0
    ELSE 2 * BitAnd(a \div 2, b \div 2) + (IF a % 2 = 1 /\ b % 2 = 1 THEN 1 ELSE 0)

\* hexbright::get_charge_state on the value analogRead(APIN_CHARGE) returns
get_charge_state(charge_value) ==
    IF charge_value < 128 THEN CHARGING
    ELSE IF charge_value > 768 THEN CHARGED
    ELSE BATTERY

\* mutant: the two reads are combined with | instead of &
combine_charge_states_or(val1, val2) == val1 + val2 - BitAnd(val1, val2)

\* hexbright::get_definite_charge_state: return val1 & val2
combine_charge_states(val1, val2) == BitAnd(val1, val2)

----------------------------------------------------------------------------
(* ACCELEROMETER                                                           *)
(* The vectors are held in counts, the integers the registers deliver:     *)
(* the code divides each by 21.3 to get g.  A magnitude m is held as the   *)
(* sum of squares of the counts, (21.3 * m)^2.  angle_change and           *)
(* axes_rotation are computed from dp, the magnitudes and the two vectors  *)
(* with acos and asin and are read by their getters alone: the model does  *)
(* not hold them.                                                          *)

AXES == 1..3

\* if(tmp & 0x40): the alert bit of a register byte (0..127)
axis_alert(byte) == (byte \div 64) % 2 = 1

\* if(tmp & 0x20) tmp |= 0xC0: the 6 bit two's complement value of the byte
axis_counts(byte) ==
    IF (byte \div 32) % 2 = 1 THEN (byte % 32) - 32 ELSE byte % 32

\* hexbright::read_accelerometer_vector, the for loop: axis i is assigned when
\* Wire.available() (wire holds the bytes that arrived, one per axis read)
\* and the byte has no alert bit; both continue statements go on to the next
\* axis and the while(1) ends with break after one pass
axis_assigned(wire, i) == i <= Len(wire) /\ ~axis_alert(wire[i])

\* hexbright::read_accelerometer_vector: new_vector after the swap and the
\* loop; slot is the vector the pointer now points to, the sample before last
read_accelerometer_new_vector(slot, wire) ==
    [i \in AXES |-> IF axis_assigned(wire, i) THEN axis_counts(wire[i]) ELSE slot[i]]

\* hexbright::get_magnitude, as the square in counts^2
get_magnitude(vector) ==
    vector[1] * vector[1] + vector[2] * vector[2] + vector[3] * vector[3]

\* hexbright::dot_product, in counts^2
dot_product(vector1, vector2) ==
    vector1[1] * vector2[1] + vector1[2] * vector2[2] + vector1[3] * vector2[3]

\* hexbright::sum_vectors
sum_vectors(vector1, vector2) == [i \in AXES |-> vector1[i] + vector2[i]]

\* abs(magnitude-1) < .1 for the default tolerance of stationary(): with
\* magnitude = sqrt(square)/21.3 this is 19.17^2 < square < 23.43^2; the
\* integers nearest to the two limits, 367 and 549, are 0.0006 g and
\* 0.00003 g away from them, more than single precision loses
near_one_g(square) ==
    /\ 1917 * 1917 < square * 10000
    /\ square * 10000 < 2343 * 2343

\* mutant: the sample before is not looked at
stationary_new_only(new_square, old_square) == near_one_g(new_square)

\* hexbright::stationary(tolerance = .1)
stationary(new_square, old_square) == near_one_g(new_square) /\ near_one_g(old_square)

----------------------------------------------------------------------------
(* BUTTON                                                                  *)

\* mutant: time_held is reset on the first tick that reads not pressed
read_button_held_reset_at_once(held, rel, button_on) ==
    IF button_on THEN held + 1 ELSE 0

\* mutant: the reset of time_held is tested before the button is looked at
read_button_held_reset_before_press(held, rel, button_on) ==
    IF rel /\ held # 0 THEN 0
    ELSE IF button_on THEN held + 1
    ELSE held

\* mutant: a press that follows a reported release restarts time_held
read_button_held_restart_on_press(held, rel, button_on) ==
    IF button_on THEN (IF rel THEN 1 ELSE held + 1)
    ELSE IF rel /\ held # 0 THEN 0
    ELSE held

\* hexbright::read_button: time_held after the call
read_button_held(held, rel, button_on) ==
    IF button_on THEN held + 1
    ELSE IF rel /\ held # 0 THEN 0
    ELSE held

\* hexbright::read_button: released after the call
read_button_released(held, rel, button_on) ==
    IF button_on THEN FALSE
    ELSE IF rel /\ held # 0 THEN rel
    ELSE TRUE

\* mutant: button_released() returns the released flag alone
button_released_flag == released

\* hexbright::button_released
button_released == time_held # 0 /\ released

\* hexbright::button_held
button_held == time_held * ms_delay

----------------------------------------------------------------------------
(* The state after hexbright(ms_delay) and init_hardware(): DPIN_PWR is an *)
(* input written LOW, the driver is off, DPIN_RLED_SW is an input, the     *)
(* globals hold their initialisers.                                        *)

\* saturation of ticks_since_set: above every duration of the model
TickCap == Pow2(MaxDurationLog) + 2
\* saturation of release_run
ReleaseCap == 3
\* saturation of led_armed[i].ticks: above on + wait + 2 of every set_led of the model
LedTickCap == 2 * MaxLedTicks + 4
\* saturation of print_ticks: above the pause print_number sets
PrintTickCap == CDiv(600, ms_delay) + 2
\* saturation of pause_ticks: above the pause that ends a number
PauseCap == CDiv(2500, ms_delay) + 1

Init ==
    /\ start_light_level = 0
    /\ end_light_level = 0
    /\ change_duration = 0
    /\ change_done = 0
    /\ safe_light_level = MAX_LEVEL
    /\ thermal_sensor_value = 0
    /\ time_held = 0
    /\ released = TRUE
    /\ led_on_time = [i \in LEDS |-> 0 - 1]
    /\ led_wait_time = [i \in LEDS |-> 0 - 1]
    /\ led_brightness = [i \in LEDS |-> 0]
    /\ led_pins = [rled_mode |-> "INPUT", rled |-> 0, gled |-> 0]
    /\ _number = 0
    /\ _color = GLED
    /\ print_wait_time = 0
    /\ pins = [pwr_mode |-> "INPUT", pwr |-> "LOW", drv_mode |-> "LOW", drv_en |-> 0]
    /\ light_written = <<0, 0>>
    /\ events = <<>>
    /\ last_call = "init_hardware"
    /\ set_light_calls = 0
    /\ ticks_since_set = 0
    /\ hot_ticks = 0
    /\ press_run = 0
    /\ release_run = ReleaseCap
    /\ idle_start = TRUE
    /\ time_since_last = 0
    /\ real_since_start = 0
    /\ waited = 0
    /\ gap = 0
    /\ late = FALSE
    /\ prev_late = FALSE
    /\ led_armed = [i \in LEDS |-> [on |-> 0 - 1, wait |-> 0 - 1, ticks |-> LedTickCap]]
    /\ printed = <<>>
    /\ blinks = <<>>
    /\ print_ticks = PrintTickCap
    /\ pause_ticks = PauseCap
    /\ charge = <<>>
    /\ new_vector = <<0, 0, 0>>
    /\ old_vector = <<0, 0, 0>>
    /\ down = [sum |-> <<0, 0, 0>>, new_magnitude |-> 0, old_magnitude |-> 0]
    /\ new_magnitude = 0
    /\ old_magnitude = 0
    /\ dp = 0
    /\ stale_axes = {}
    /\ down_written = FALSE
    /\ held_at_press = 0
    /\ released_at_press = FALSE

----------------------------------------------------------------------------
(* The operations.                                                         *)

\* get_light_level() and get_safe_light_level() in the current state
LightLevel ==
    get_light_level(start_light_level, end_light_level, change_done, change_duration)
SafeLevel ==
    get_safe_light_level(start_light_level, end_light_level, change_done,
                         change_duration, safe_light_level)

\* mutant: CURRENT_LEVEL starts at the target of the previous ramp
set_light_start_target(start_level) ==
    IF start_level = CURRENT_LEVEL THEN end_light_level ELSE start_level

\* hexbright::set_light: the start level it stores
set_light_start(start_level) ==
    IF start_level = CURRENT_LEVEL THEN SafeLevel ELSE start_level

\* hexbright::set_light(start_level, end_level, time)
set_light(start_level, end_level, time) ==
    /\ start_light_level' = set_light_start(start_level)
    /\ end_light_level' = end_level
    /\ change_duration' = CDiv(time, ms_delay)
    /\ change_done' = 0
    /\ last_call' = IF start_level = CURRENT_LEVEL THEN "set_light_current" ELSE "set_light"
    /\ set_light_calls' = set_light_calls + 1
    /\ ticks_since_set' = 0
    /\ UNCHANGED <<safe_light_level, thermal_sensor_value, time_held, released, ledVars,
                   numberVars, pins, light_written, events, hot_ticks, buttonHistory,
                   clockVars, led_armed, printHistory, charge, accelVars>>

\* hexbright::shutdown
shutdown ==
    /\ pins' = [pwr_mode |-> "OUTPUT", pwr |-> "LOW", drv_mode |-> "LOW", drv_en |-> 0]
    /\ last_call' = "shutdown"
    /\ UNCHANGED <<lightVars, safe_light_level, thermal_sensor_value, time_held, released,
                   ledVars, numberVars, light_written, events, set_light_calls,
                   ticks_since_set, hot_ticks, buttonHistory, clockVars, led_armed,
                   printHistory, charge, accelVars>>

\* mutant: the button is read before the red LED is switched off
update_steps_button_first(led_calls, writes) ==
    <<"wait", "read_button", "_led_off(RLED)", "adjust_leds">> \o led_calls
    \o <<"update_number", "read_thermal_sensor", "read_accelerometer_vector",
         "overheat_protection", "adjust_light">>
    \o (IF writes THEN <<"set_light_level">> ELSE <<>>)

\* mutant: the light is adjusted before the ceiling is updated
update_steps_light_first(led_calls, writes) ==
    <<"wait", "_led_off(RLED)", "read_button", "adjust_leds">> \o led_calls
    \o <<"update_number", "read_thermal_sensor", "read_accelerometer_vector",
         "adjust_light">>
    \o (IF writes THEN <<"set_light_level">> ELSE <<>>)
    \o <<"overheat_protection">>

\* hexbright::update: the statements it executes, in order; led_calls are the
\* _led_on and _led_off calls of adjust_leds, writes tells whether
\* adjust_light calls set_light_level
update_steps(led_calls, writes) ==
    <<"wait", "_led_off(RLED)", "read_button", "adjust_leds">> \o led_calls
    \o <<"update_number", "read_thermal_sensor", "read_accelerometer_vector",
         "overheat_protection", "adjust_light">>
    \o (IF writes THEN <<"set_light_level">> ELSE <<>>)

\* hexbright::update: the wait loop and last_time = time, then _led_off(RLED),
\* read_button, adjust_leds, update_number, read_thermal_sensor, read_accelerometer_vector,
\* overheat_protection, adjust_light, in this order.  button_on is what
\* digitalRead(DPIN_RLED_SW) returns and reading what analogRead(APIN_TEMP)
\* returns in this tick, wire the bytes Wire.requestFrom(ACC_ADDRESS, 3)
\* delivers.
update(button_on, reading, wire) ==
    LET printed_now == update_number(_number, _color, print_wait_time)
        on1 == adjust_leds_on_time(led_on_time)
        wait1 == adjust_leds_wait_time(led_on_time, led_wait_time)
        ceiling == overheat_ceiling(safe_light_level, reading)
        done1 == overheat_done(ceiling, change_done, change_duration)
        writes == adjust_light_writes(done1, change_duration)
        light_level == get_safe_light_level(start_light_level, end_light_level,
                                            done1, change_duration, ceiling)
        new_run == release_run > 0 \/ press_run = 0
        wait_ms == update_wait(time_since_last)
        sample == read_accelerometer_new_vector(old_vector, wire)
        still == stationary(get_magnitude(sample), new_magnitude)
    IN  /\ time_since_last' = update_last_time(time_since_last, wait_ms)
        /\ real_since_start' = 0
        /\ waited' = wait_ms
        /\ gap' = real_since_start + wait_ms
        /\ late' = (real_since_start >= ms_delay)
        /\ prev_late' = late
        /\ time_held' = read_button_held(time_held, released, button_on)
        /\ released' = read_button_released(time_held, released, button_on)
        /\ led_pins' = led_pins_after(led_on_time, led_brightness, led_pins)
        /\ IF printed_now.blink # 0
           THEN /\ led_on_time' = set_led_on_time(on1, _color, printed_now.blink)
                /\ led_wait_time' = set_led_wait_time(wait1, _color, 100)
                /\ led_brightness' = set_led_brightness(led_brightness, _color, 255)
           ELSE /\ led_on_time' = on1
                /\ led_wait_time' = wait1
                /\ led_brightness' = led_brightness
        /\ _number' = printed_now.number
        /\ _color' = printed_now.color
        /\ print_wait_time' = printed_now.wait
        /\ thermal_sensor_value' = reading
        /\ safe_light_level' = ceiling
        /\ change_done' = adjust_light_done(done1, change_duration)
        /\ IF writes
           THEN /\ pins' \in set_light_level(ToUnsignedLong(light_level))
                /\ light_written' = ToUnsignedLong(light_level)
           ELSE UNCHANGED <<pins, light_written>>
        /\ new_vector' = sample
        /\ old_vector' = new_vector
        /\ old_magnitude' = new_magnitude
        /\ new_magnitude' = get_magnitude(sample)
        /\ dp' = dot_product(new_vector, sample)
        /\ down' = IF still
                   THEN [sum |-> sum_vectors(sample, new_vector),
                         new_magnitude |-> get_magnitude(sample),
                         old_magnitude |-> new_magnitude]
                   ELSE down
        /\ stale_axes' = {i \in AXES : ~axis_assigned(wire, i)}
        /\ down_written' = still
        /\ events' = update_steps(adjust_leds_calls(led_on_time, RLED)
                                  \o adjust_leds_calls(led_on_time, GLED), writes)
        /\ last_call' = "update"
        /\ ticks_since_set' = Min(ticks_since_set + 1, TickCap)
        /\ press_run' = IF ~button_on THEN press_run
                        ELSE IF new_run THEN 1 ELSE press_run + 1
        /\ release_run' = IF button_on THEN 0 ELSE Min(release_run + 1, ReleaseCap)
        /\ idle_start' = IF button_on /\ new_run THEN time_held = 0 ELSE idle_start
        /\ held_at_press' = IF button_on /\ new_run THEN time_held ELSE held_at_press
        /\ released_at_press' = IF button_on /\ new_run THEN button_released
                                ELSE released_at_press
        /\ led_armed' =
               [i \in LEDS |->
                   IF printed_now.blink # 0 /\ i = _color
                   THEN [on |-> CDiv(printed_now.blink, ms_delay),
                         wait |-> CDiv(100, ms_delay), ticks |-> 0]
                   ELSE [led_armed[i] EXCEPT !.ticks = Min(@ + 1, LedTickCap)]]
        /\ blinks' = IF printed_now.blink # 0
                     THEN Append(blinks, <<_color, printed_now.blink>>)
                     ELSE blinks
        /\ print_ticks' = Min(print_ticks + 1, PrintTickCap)
        /\ pause_ticks' = IF _number # 0 /\ printed_now.number = 0 THEN 0
                          ELSE Min(pause_ticks + 1, PauseCap)
        /\ UNCHANGED <<start_light_level, end_light_level, change_duration,
                       set_light_calls, printed, charge>>

\* the application's own code between two update() calls (the body of loop()
\* in a program that uses the library) runs for duration ms: millis() moves on
work(duration) ==
    /\ time_since_last' = time_since_last + duration
    /\ real_since_start' = real_since_start + duration
    /\ UNCHANGED <<lightVars, safe_light_level, thermal_sensor_value, time_held, released,
                   ledVars, numberVars, pins, light_written, events, last_call,
                   set_light_calls, ticks_since_set, hot_ticks, buttonHistory, waited,
                   gap, late, prev_late, led_armed, printHistory, charge, accelVars>>

\* hexbright::set_led(led, on_time, wait_time, brightness)
set_led(led, on_time, wait_time, brightness) ==
    /\ led_on_time' = set_led_on_time(led_on_time, led, on_time)
    /\ led_wait_time' = set_led_wait_time(led_wait_time, led, wait_time)
    /\ led_brightness' = set_led_brightness(led_brightness, led, brightness)
    /\ led_armed' = [led_armed EXCEPT ![led] = [on |-> CDiv(on_time, ms_delay),
                                                wait |-> CDiv(wait_time, ms_delay),
                                                ticks |-> 0]]
    /\ last_call' = "set_led"
    /\ UNCHANGED <<lightVars, safe_light_level, thermal_sensor_value, time_held, released,
                   led_pins, numberVars, pins, light_written, events, set_light_calls,
                   ticks_since_set, hot_ticks, buttonHistory, clockVars, printHistory,
                   charge, accelVars>>

\* hexbright::print_number(number): _color = GLED and _number = 1, the marker
\* that keeps trailing zeros, then the loop, then the sign
print_number(number) ==
    LET reversed == print_number_loop(print_number_abs(number), 1, GLED)
        sign_led == flip_color(reversed.color)
    IN  /\ _number' = reversed.number
        /\ _color' = reversed.color
        /\ IF number < 0
           THEN /\ led_on_time' = set_led_on_time(led_on_time, sign_led, 500)
                /\ led_wait_time' = set_led_wait_time(led_wait_time, sign_led, 100)
                /\ led_brightness' = set_led_brightness(led_brightness, sign_led, 255)
                /\ led_armed' = [led_armed EXCEPT ![sign_led] =
                                     [on |-> CDiv(500, ms_delay),
                                      wait |-> CDiv(100, ms_delay), ticks |-> 0]]
                /\ print_wait_time' = CDiv(600, ms_delay)
                /\ blinks' = <<<<sign_led, 500>>>>
           ELSE /\ UNCHANGED <<led_on_time, led_wait_time, led_brightness, led_armed,
                               print_wait_time>>
                /\ blinks' = <<>>
        /\ printed' = <<number>>
        /\ print_ticks' = 0
        /\ last_call' = "print_number"
        /\ UNCHANGED <<lightVars, safe_light_level, thermal_sensor_value, time_held,
                       released, led_pins, pins, light_written, events, set_light_calls,
                       ticks_since_set, hot_ticks, buttonHistory, clockVars, pause_ticks,
                       charge, accelVars>>

\* hexbright::get_definite_charge_state: charge_value1 and charge_value2 are
\* what the two analogRead(APIN_CHARGE) return, reading what the
\* analogRead(APIN_TEMP) of the read_thermal_sensor() between them returns
get_definite_charge_state(charge_value1, reading, charge_value2) ==
    LET val1 == get_charge_state(charge_value1)
        val2 == get_charge_state(charge_value2)
    IN  /\ thermal_sensor_value' = reading
        /\ charge' = <<charge_value1, charge_value2, combine_charge_states(val1, val2)>>
        /\ last_call' = "get_definite_charge_state"
        /\ UNCHANGED <<lightVars, safe_light_level, time_held, released, ledVars,
                       numberVars, pins, light_written, events, set_light_calls,
                       ticks_since_set, hot_ticks, buttonHistory, clockVars, led_armed,
                       printHistory, accelVars>>

----------------------------------------------------------------------------
(* The inputs of the model.                                                *)

\* the accelerometer bytes of a light lying still: 21 counts, 1 g, on one axis
AtRest == <<0, 0, 21>>

\* thermal readings: cold (ceiling +200), at the threshold, hot (ceiling -500)
Readings == {120, 320, 820}
\* levels passed to set_light
Levels == {0, MAX_LEVEL}
\* times passed to set_light: less than a tick, and 2^i ticks
Times == {0} \cup {Pow2(i) * ms_delay : i \in 0..MaxDurationLog}

\* one tick of the loop with the button up
Tick == \E reading \in Readings : update(FALSE, reading, AtRest) /\ UNCHANGED hot_ticks

\* the application starts a ramp
SetLight ==
    /\ set_light_calls < MaxSetLight
    /\ \E start_level \in Levels \cup {CURRENT_LEVEL}, end_level \in Levels, time \in Times :
           set_light(start_level, end_level, time)

\* the application shuts down
Shutdown == shutdown

Next == Tick \/ SetLight \/ Shutdown

Spec == Init /\ [][Next]_vars

----------------------------------------------------------------------------
(* The thermal governor under extreme readings: the loop and one full      *)
(* brightness request.                                                     *)

\* the ends of the analogRead range and the readings around the threshold
ExtremeReadings == {0, OVERHEAT_TEMPERATURE - 1, OVERHEAT_TEMPERATURE,
                    OVERHEAT_TEMPERATURE + 1, ANALOG_MAX}

ThermalTick ==
    \E reading \in ExtremeReadings : update(FALSE, reading, AtRest) /\ UNCHANGED hot_ticks

\* the application asks for full brightness over the longest ramp
FullBrightness ==
    /\ set_light_calls < MaxSetLight
    /\ set_light(0, MAX_LEVEL, Pow2(MaxDurationLog) * ms_delay)

NextThermal == ThermalTick \/ FullBrightness

SpecThermal == Init /\ [][NextThermal]_vars

----------------------------------------------------------------------------
(* A persistent overheat: every reading is above OVERHEAT_TEMPERATURE.     *)

HotReadings == {OVERHEAT_TEMPERATURE + 1, ANALOG_MAX}
\* saturation of hot_ticks
HotCap == MAX_LEVEL + 1

HotTick ==
    \E reading \in HotReadings :
        /\ update(FALSE, reading, AtRest)
        /\ hot_ticks' = Min(hot_ticks + 1, HotCap)

NextOverheat == HotTick \/ FullBrightness

SpecOverheat == Init /\ [][NextOverheat]_vars

----------------------------------------------------------------------------
(* set_light with arguments outside the documented ranges.                 *)

AnyLevels == {0 - 300, MAX_LEVEL + 500}
AnyTimes == {0 - 2 * ms_delay, 2 * ms_delay}
AnyReadings == {OVERHEAT_TEMPERATURE}

AnyTick == \E reading \in AnyReadings : update(FALSE, reading, AtRest) /\ UNCHANGED hot_ticks

\* the application's first set_light call
SetLightAny ==
    /\ set_light_calls = 0
    /\ \E start_level \in AnyLevels \cup {CURRENT_LEVEL}, end_level \in AnyLevels,
          time \in AnyTimes :
           set_light(start_level, end_level, time)

NextAnyArgs == AnyTick \/ SetLightAny

SpecAnyArgs == Init /\ [][NextAnyArgs]_vars

----------------------------------------------------------------------------
(* The button: the loop with the button pressed or not in each tick.       *)

ButtonReadings == {OVERHEAT_TEMPERATURE, 820}

ButtonTick ==
    \E button_on \in BOOLEAN, reading \in ButtonReadings :
        /\ button_on => time_held < MaxHeld
        /\ update(button_on, reading, AtRest)
        /\ UNCHANGED hot_ticks

NextButton == ButtonTick

SpecButton == Init /\ [][NextButton]_vars

----------------------------------------------------------------------------
(* The rear LEDs: the loop and set_led calls on both channels.             *)

\* on_time passed to set_led: no tick, a tick and a half, the longest
OnTimes == {0, ms_delay + ms_delay \div 2, MaxLedTicks * ms_delay}
\* wait_time passed to set_led: no tick, and one tick less than the longest on_time
WaitTimes == {0, (MaxLedTicks - 1) * ms_delay}
\* brightness passed to set_led: the default and a dim one
Brightnesses == {64, 255}

LedTick == update(FALSE, OVERHEAT_TEMPERATURE, AtRest) /\ UNCHANGED hot_ticks

SetLed ==
    \E led \in LEDS, on_time \in OnTimes, wait_time \in WaitTimes,
       brightness \in Brightnesses :
        set_led(led, on_time, wait_time, brightness)

NextLed == LedTick \/ SetLed

SpecLed == Init /\ [][NextLed]_vars

----------------------------------------------------------------------------
(* The number printer: the loop, and print_number called whenever          *)
(* printing_number() is false, as the library's programs call it.          *)

\* the numbers passed to print_number: 0, one digit, trailing and inner
\* zeros, the example of hexbright.h, the largest printable value, and
\* negative ones
PrintNumbers == {0, 1, 10, 100, 105, 120, 999999999,
                 0 - 1, 0 - 120, 0 - 999999999}

PrintTick == update(FALSE, OVERHEAT_TEMPERATURE, AtRest) /\ UNCHANGED hot_ticks

PrintNumber ==
    /\ ~printing_number
    /\ \E number \in PrintNumbers : print_number(number)

NextPrint == PrintTick \/ PrintNumber

SpecPrint == Init /\ [][NextPrint]_vars

\* the loop keeps calling update()
SpecPrintFair == SpecPrint /\ WF_vars(PrintTick)

----------------------------------------------------------------------------
(* The charge state: the loop and get_definite_charge_state calls.         *)

\* what analogRead(APIN_CHARGE) returns: the ends of the range, both sides
\* of the two thresholds, the middle
ChargeValues == {0, 127, 128, 448, 768, 769, ANALOG_MAX}
\* what analogRead(APIN_TEMP) returns
ChargeReadings == {120, OVERHEAT_TEMPERATURE}

ChargeTick ==
    \E reading \in ChargeReadings : update(FALSE, reading, AtRest) /\ UNCHANGED hot_ticks

GetDefiniteChargeState ==
    \E charge_value1 \in ChargeValues, charge_value2 \in ChargeValues,
       reading \in ChargeReadings :
        get_definite_charge_state(charge_value1, reading, charge_value2)

NextCharge == ChargeTick \/ GetDefiniteChargeState

SpecCharge == Init /\ [][NextCharge]_vars

----------------------------------------------------------------------------
(* The tick scheduler: the loop, with application code of any length up to *)
(* MaxStall ms between two update() calls.                                 *)

\* how long a piece of application code runs: a moment, just under a tick,
\* a tick, more than two ticks
WorkTimes == {1, ms_delay - 1, ms_delay, 2 * ms_delay + 5}

TimedTick == update(FALSE, OVERHEAT_TEMPERATURE, AtRest) /\ UNCHANGED hot_ticks

Work ==
    \E duration \in WorkTimes :
        /\ real_since_start + duration <= MaxStall
        /\ work(duration)

NextTiming == TimedTick \/ Work

SpecTiming == Init /\ [][NextTiming]_vars

----------------------------------------------------------------------------
(* The accelerometer: the loop with the bytes the sensor answers in each   *)
(* tick: at rest on one axis (21 counts), tilted, reversed (43 is -21 in   *)
(* six bits), an alert byte (85 has bit 0x40 set), or fewer than three     *)
(* bytes on the bus.                                                       *)

AccSamples ==
    {<<>>, <<0, 21>>, <<0, 0, 0>>, <<0, 0, 21>>, <<0, 21, 0>>, <<21, 21, 0>>,
     <<0, 0, 43>>, <<43, 0, 0>>, <<85, 0, 21>>, <<0, 85, 0>>, <<0, 0, 85>>}

AccelTick ==
    \E wire \in AccSamples :
        /\ update(FALSE, OVERHEAT_TEMPERATURE, wire)
        /\ UNCHANGED hot_ticks

NextAccel == AccelTick

SpecAccel == Init /\ [][NextAccel]_vars

----------------------------------------------------------------------------
(* Every level: a program that sets one constant level after start-up and  *)
(* then runs the loop.                                                     *)

AllLevels == 0..MAX_LEVEL

LevelTick == update(FALSE, OVERHEAT_TEMPERATURE, AtRest) /\ UNCHANGED hot_ticks

SetLevel ==
    /\ set_light_calls = 0
    /\ \E level \in AllLevels : set_light(level, level, 0)

NextLevels == LevelTick \/ SetLevel

SpecLevels == Init /\ [][NextLevels]_vars

----------------------------------------------------------------------------
(* The claims.                                                             *)

\* the last update() called set_light_level
WroteLight == \E i \in 1..Len(events) : events[i] = "set_light_level"
\* the library call that produced the state was update()
AfterUpdate == last_call = "update"
\* clamp(x, 0, MAX_LEVEL)
Clamp(x) == Max(0, Min(MAX_LEVEL, x))
\* DPIN_PWR is an output driven low
PowerDrivenLow == pins.pwr_mode = "OUTPUT" /\ pins.pwr = "LOW"

\* C1: whatever the readings, the ceiling safe_light_level stays within
\* 0..MAX_LEVEL, and every update() sets it to
\* clamp(previous ceiling + (OVERHEAT_TEMPERATURE - reading), 0, MAX_LEVEL).
C1_CeilingBounded ==
    /\ [](safe_light_level \in 0..MAX_LEVEL)
    /\ [][last_call' = "update" =>
             safe_light_level' =
                 Clamp(safe_light_level + (OVERHEAT_TEMPERATURE - thermal_sensor_value'))]_vars

\* C1 witness: the hottest reading has brought the ceiling to 0 and the
\* update() wrote level 0 for a request of full brightness.
C1_Witness ==
    /\ AfterUpdate /\ WroteLight
    /\ safe_light_level = 0 /\ thermal_sensor_value = ANALOG_MAX
    /\ end_light_level = MAX_LEVEL /\ light_written = <<0, 0>>

\* C2: with ramp levels in 0..MAX_LEVEL the level most recently written to
\* the actuator never exceeds the ceiling, and get_safe_light_level() is
\* min(get_light_level(), safe_light_level).
C2_WrittenWithinCeiling ==
    /\ light_written[1] = 0
    /\ light_written[2] <= safe_light_level
    /\ SafeLevel = Min(LightLevel, safe_light_level)

\* C2 witness: an update() wrote the ceiling itself, below the requested level.
C2_Witness ==
    /\ AfterUpdate /\ WroteLight
    /\ safe_light_level \in 1..(MAX_LEVEL - 1)
    /\ light_written = <<0, safe_light_level>>
    /\ LightLevel > safe_light_level

\* C3: an update() that leaves the ceiling below MAX_LEVEL has written the
\* actuator with min(requested level, ceiling), the requested level being the
\* one of the tick it wrote in (change_done was incremented after the write).
C3_ClampWrittenSameTick ==
    (AfterUpdate /\ safe_light_level < MAX_LEVEL) =>
        /\ WroteLight
        /\ light_written =
              ToUnsignedLong(Min(get_light_level(start_light_level, end_light_level,
                                                 change_done - 1, change_duration),
                                 safe_light_level))

\* C3 witness: the ramp was complete ticks ago and the update() still wrote
\* the clamped level.
C3_Witness ==
    /\ AfterUpdate /\ WroteLight
    /\ change_duration >= 1
    /\ ticks_since_set > change_duration + 2
    /\ safe_light_level < end_light_level
    /\ light_written = <<0, safe_light_level>>

\* C5: after set_light(L1, L2, D ticks), D > 0: get_light_level() is L1 before
\* any tick, stays between L1 and L2, moves toward L2 and never back on a
\* tick, is L2 once D ticks have elapsed and no later tick changes it.
C5_RampShape ==
    /\ [](change_duration > 0 =>
            /\ ticks_since_set = 0 => LightLevel = start_light_level
            /\ LightLevel >= Min(start_light_level, end_light_level)
            /\ LightLevel <= Max(start_light_level, end_light_level)
            /\ ticks_since_set >= change_duration => LightLevel = end_light_level)
    /\ [][(last_call' = "update" /\ change_duration > 0) =>
            /\ start_light_level <= end_light_level => LightLevel' >= LightLevel
            /\ start_light_level >= end_light_level => LightLevel' <= LightLevel
            /\ ticks_since_set >= change_duration => LightLevel' = LightLevel]_vars

\* C5 witness: half way up a ramp of four ticks from 0 to MAX_LEVEL.
C5_Witness ==
    /\ AfterUpdate
    /\ start_light_level = 0 /\ end_light_level = MAX_LEVEL
    /\ change_duration = 4 /\ ticks_since_set = 2
    /\ LightLevel = 500

\* C6: set_light(CURRENT_LEVEL, end, time) with time/ms_delay >= 1 leaves
\* get_safe_light_level() as it was before the call.
C6_CurrentLevelNoJump ==
    [][(last_call' = "set_light_current" /\ change_duration' >= 1) =>
          SafeLevel' = SafeLevel]_vars

\* C6 witness: a ramp started at the current level while the ceiling was
\* clamping an earlier ramp: it starts at the ceiling.
C6_Witness ==
    /\ last_call = "set_light_current"
    /\ change_duration >= 1
    /\ safe_light_level \in 1..(MAX_LEVEL - 1)
    /\ start_light_level = safe_light_level
    /\ end_light_level # start_light_level
    /\ light_written = <<0, safe_light_level>>

\* C7: whatever the arguments of set_light, every level reported by
\* get_light_level() and get_safe_light_level() and every level passed to the
\* actuator is within 0..MAX_LEVEL.
C7_LevelsClamped ==
    /\ LightLevel \in 0..MAX_LEVEL
    /\ SafeLevel \in 0..MAX_LEVEL
    /\ light_written[1] = 0 /\ light_written[2] <= MAX_LEVEL

\* C8: every actuator write of the tick loop leaves DPIN_PWR an output driven
\* HIGH, a write of level 0 with duty 0 in the low drive mode; only shutdown()
\* drives DPIN_PWR low.
C8_PowerStaysOn ==
    /\ []((AfterUpdate /\ WroteLight) =>
            /\ pins.pwr_mode = "OUTPUT" /\ pins.pwr = "HIGH"
            /\ light_written = <<0, 0>> => (pins.drv_mode = "LOW" /\ pins.drv_en = 0))
    /\ [][(PowerDrivenLow' /\ ~PowerDrivenLow) => last_call' = "shutdown"]_vars

\* C8 witness: an update() wrote level 0 while a ramp to full brightness was
\* clamped by a ceiling of 0, and the power pin is high.
C8_Witness ==
    /\ AfterUpdate /\ WroteLight
    /\ light_written = <<0, 0>>
    /\ end_light_level = MAX_LEVEL /\ safe_light_level = 0
    /\ pins.pwr = "HIGH" /\ pins.drv_en = 0

\* C4: while every reading is above OVERHEAT_TEMPERATURE the ceiling falls on
\* every tick until it is 0 and then stays 0; after n such ticks it is at most
\* MAX_LEVEL - n, so after MAX_LEVEL ticks at the latest it is 0, and every
\* tick with the ceiling at 0 writes level 0 with the power pin still high.
C4_OverheatClampsToZero ==
    /\ [](hot_ticks >= 1 => safe_light_level <= Max(0, MAX_LEVEL - hot_ticks))
    /\ [](hot_ticks >= MAX_LEVEL =>
            /\ safe_light_level = 0
            /\ WroteLight /\ light_written = <<0, 0>>
            /\ pins.pwr_mode = "OUTPUT" /\ pins.pwr = "HIGH")
    /\ [][(last_call' = "update" /\ thermal_sensor_value' > OVERHEAT_TEMPERATURE) =>
            /\ safe_light_level > 0 => safe_light_level' < safe_light_level
            /\ safe_light_level = 0 => safe_light_level' = 0
            /\ safe_light_level' = 0 => (WroteLight' /\ light_written' = <<0, 0>>)]_vars

\* C4 witness: MAX_LEVEL ticks of overheat, the last reading just above the
\* threshold, the ceiling at 0 and level 0 written for a full brightness
\* request.
C4_Witness ==
    /\ AfterUpdate /\ WroteLight
    /\ hot_ticks = MAX_LEVEL
    /\ thermal_sensor_value = OVERHEAT_TEMPERATURE + 1
    /\ safe_light_level = 0 /\ light_written = <<0, 0>>
    /\ end_light_level = MAX_LEVEL /\ change_duration >= 1
    /\ pins.pwr = "HIGH"

\* C9: a press that starts from the idle state and lasts N ticks:
\* button_released() is false after every pressed tick, is true with
\* button_held() = N*ms_delay at the end of the first tick that reads not
\* pressed, and is false at the end of every later not-pressed tick.
C9_ReleaseReportedOnce ==
    /\ (press_run >= 1 /\ release_run = 0) => ~button_released
    /\ (press_run >= 1 /\ release_run = 1 /\ idle_start) =>
          (button_released /\ button_held = press_run * ms_delay)
    /\ release_run >= 2 => ~button_released

\* C9 witness: the tick after a press of three ticks from idle.
C9_Witness ==
    /\ AfterUpdate
    /\ idle_start /\ press_run = 3 /\ release_run = 1
    /\ button_released /\ button_held = 3 * ms_delay

\* C10 as stated: after a press is released, button_released() stays true on
\* every tick until the button is pressed again.
C10_ReleasedUntilNextPress ==
    (press_run >= 1 /\ release_run >= 1) => button_released

\* C10 amended: after a press is released, button_released() is true at the
\* end of the first not-pressed tick only (the second one resets time_held);
\* the released flag stays true on every tick until the next press.
C10_ReleasedFlagUntilNextPress ==
    (press_run >= 1 /\ release_run >= 1) =>
        /\ released
        /\ button_released <=> release_run = 1
        /\ release_run >= 2 => time_held = 0

\* C10 witness: the second not-pressed tick after a press: the flag is set,
\* time_held is back to 0 and button_released() is false.
C10_Witness ==
    /\ AfterUpdate
    /\ press_run >= 2 /\ release_run = 2
    /\ released /\ time_held = 0 /\ ~button_released

----------------------------------------------------------------------------
(* The rear LEDs.                                                          *)

\* the _led_on and _led_off calls adjust_leds made for channel i in the last
\* update(); the first events are the wait and the _led_off(RLED) of update()
\* itself
LedWrites(i) ==
    SelectSeq(SubSeq(events, 3, Len(events)),
              LAMBDA e : e \in (IF i = RLED THEN {"_led_on(RLED)", "_led_off(RLED)"}
                                           ELSE {"_led_on(GLED)", "_led_off(GLED)"}))
LedOnCall(i) == IF i = RLED THEN "_led_on(RLED)" ELSE "_led_on(GLED)"
LedOffCall(i) == IF i = RLED THEN "_led_off(RLED)" ELSE "_led_off(GLED)"
\* the pin of channel i is driven with the channel's brightness
LedLit(i) ==
    IF i = RLED THEN led_pins.rled_mode = "OUTPUT" /\ led_pins.rled = led_brightness[RLED]
    ELSE led_pins.gled = led_brightness[GLED]
\* the pin of channel i is off
LedDark(i) ==
    IF i = RLED THEN led_pins.rled_mode = "INPUT" /\ led_pins.rled = 0
    ELSE led_pins.gled = 0

\* C11: k update() calls after set_led armed a channel with on = n >= 1 ticks
\* and wait = w >= 0 ticks, adjust_leds has switched the LED on in each of the
\* ticks 1..n, written it off once in tick n + 1 (on goes 0 to -1), has only
\* counted the wait down in the ticks n + 2 .. n + w + 2, without a write,
\* and changes nothing for the channel afterwards.
C11_OnThenOffOnceThenWait ==
    \A i \in LEDS :
        LET n == led_armed[i].on
            w == led_armed[i].wait
            k == led_armed[i].ticks
        IN  (n >= 1 /\ w >= 0 /\ k >= 1) =>
               /\ k <= n =>
                     /\ LedWrites(i) = <<LedOnCall(i)>>
                     /\ LedLit(i)
                     /\ led_on_time[i] = n - k
                     /\ led_wait_time[i] = w
               /\ k = n + 1 =>
                     /\ LedWrites(i) = <<LedOffCall(i)>>
                     /\ LedDark(i)
                     /\ led_on_time[i] = 0 - 1
                     /\ led_wait_time[i] = w
               /\ (k >= n + 2 /\ k <= n + w + 2) =>
                     /\ LedWrites(i) = <<>>
                     /\ LedDark(i)
                     /\ led_on_time[i] = 0 - 1
                     /\ led_wait_time[i] = w - (k - n - 1)
               /\ k > n + w + 2 =>
                     /\ LedWrites(i) = <<>>
                     /\ LedDark(i)
                     /\ led_on_time[i] = 0 - 1
                     /\ led_wait_time[i] = 0 - 1

\* C11 witness: the green LED armed with on = 3 and wait = 2 ticks, in the
\* tick that writes it off
C11_Witness ==
    /\ led_armed[GLED] = [on |-> 3, wait |-> 2, ticks |-> 4]
    /\ LedWrites(GLED) = <<"_led_off(GLED)">>
    /\ led_on_time[GLED] = 0 - 1

\* C12: get_led_state returns LED_ON exactly when the on counter is >= 0,
\* LED_WAIT exactly when the on counter is negative and the wait counter is
\* >= 0, LED_OFF exactly when both are negative.
C12_StateByRanges ==
    \A i \in LEDS :
        /\ get_led_state(i) = LED_ON <=> led_on_time[i] >= 0
        /\ get_led_state(i) = LED_WAIT <=> (led_on_time[i] < 0 /\ led_wait_time[i] >= 0)
        /\ get_led_state(i) = LED_OFF <=> (led_on_time[i] < 0 /\ led_wait_time[i] < 0)

\* C12 amended: get_led_state returns LED_ON exactly when the on counter is
\* >= 0, LED_WAIT exactly when the on counter is negative and the wait
\* counter is > 0, LED_OFF exactly when the on counter is negative and the
\* wait counter is <= 0.
C12_StateByCodeRanges ==
    \A i \in LEDS :
        /\ get_led_state(i) = LED_ON <=> led_on_time[i] >= 0
        /\ get_led_state(i) = LED_WAIT <=> (led_on_time[i] < 0 /\ led_wait_time[i] > 0)
        /\ get_led_state(i) = LED_OFF <=> (led_on_time[i] < 0 /\ led_wait_time[i] <= 0)

\* C12 witness: a channel whose wait counter has come down to 0 reads LED_OFF
C12_Witness ==
    /\ AfterUpdate
    /\ led_armed[RLED].on >= 1
    /\ led_on_time[RLED] < 0
    /\ led_wait_time[RLED] = 0
    /\ get_led_state(RLED) = LED_OFF

----------------------------------------------------------------------------
(* The number printer.                                                     *)

\* the decimal digits of n >= 0, most significant first
RECURSIVE Digits(_)
Digits(n) == IF n < 10 THEN <<n>> ELSE Append(Digits(n \div 10), n % 10)
\* the LED of the digit with p digits to its right: the units digit is red
DigitColor(p) == IF p % 2 = 0 THEN RLED ELSE GLED
\* the blinks of one digit: d short ones, or a long one for 0
DigitBlinks(d, color) ==
    IF d = 0 THEN <<<<color, 400>>>> ELSE [j \in 1..d |-> <<color, 120>>]
\* the blinks of the first m digits of ds
RECURSIVE GroupBlinks(_, _)
GroupBlinks(ds, m) ==
    IF m = 0 THEN <<>>
    ELSE GroupBlinks(ds, m - 1) \o DigitBlinks(ds[m], DigitColor(Len(ds) - m))
\* the blinks of the number n >= 1
NumberBlinks(n) == GroupBlinks(Digits(n), Len(Digits(n)))
\* the blinks of any number: nothing for 0, a 500 ms blink first when negative
ExpectedBlinks(n) ==
    IF n = 0 THEN <<>>
    ELSE IF n > 0 THEN NumberBlinks(n)
    ELSE <<<<flip_color(DigitColor(Len(Digits(0 - n)) - 1)), 500>>>> \o NumberBlinks(0 - n)
IsPrefix(a, b) == Len(a) <= Len(b) /\ a = SubSeq(b, 1, Len(a))
\* the number of runs of one colour in a sequence of blinks
ColourRuns(b) ==
    IF b = <<>> THEN 0
    ELSE 1 + Cardinality({j \in 1..(Len(b) - 1) : b[j][1] # b[j + 1][1]})
\* the number and its final pause have been consumed
Consumed ==
    /\ printed # <<>>
    /\ blinks = ExpectedBlinks(printed[1])
    /\ _number = 0
    /\ pause_ticks >= CDiv(2500, ms_delay)

C14_OneGroupPerDigit ==
    (printed # <<>> /\ printed[1] >= 1 /\ ~printing_number) =>
        ColourRuns(blinks) = Len(Digits(printed[1]))

\* C14 witness: 100 has been printed as a blink for 1 and two long blinks
C14_Witness ==
    /\ printed = <<100>>
    /\ ~printing_number
    /\ blinks = <<<<RLED, 120>>, <<GLED, 400>>, <<RLED, 400>>>>

\* C15: print_number(-n), n >= 1, arms one 500 ms blink on the LED the first
\* digit does not use and sets a pause of 600 ms; no digit blink starts in
\* the ticks of that pause, and then the blinks of print_number(n) follow.
C15_NegativePrefix ==
    (printed # <<>> /\ printed[1] < 0) =>
        LET n == 0 - printed[1]
            sign_led == flip_color(DigitColor(Len(Digits(n)) - 1))
        IN  /\ IsPrefix(<<<<sign_led, 500>>>>, blinks)
            /\ IsPrefix(blinks, <<<<sign_led, 500>>>> \o NumberBlinks(n))
            /\ print_ticks = 0 =>
                   /\ print_wait_time = CDiv(600, ms_delay)
                   /\ led_on_time[sign_led] = CDiv(500, ms_delay)
            /\ print_ticks <= CDiv(600, ms_delay) => Len(blinks) = 1
            /\ ~printing_number => blinks = <<<<sign_led, 500>>>> \o NumberBlinks(n)

\* C15 witness: -120 has been printed: a long green blink, then those of 120
C15_Witness ==
    /\ printed = <<0 - 120>>
    /\ ~printing_number
    /\ blinks = <<<<GLED, 500>>, <<RLED, 120>>, <<GLED, 120>>, <<GLED, 120>>,
                  <<RLED, 400>>>>

\* C16: printing_number() is false exactly when _number is 0 and no pause is
\* pending; after print_number it is true in every tick until the digits and
\* the final pause are consumed, it becomes false after finitely many ticks,
\* and it stays false until the next print_number call.
C16_PrintingUntilConsumed ==
    /\ [](printing_number <=> ~(_number = 0 /\ print_wait_time = 0))
    /\ []((printed # <<>> /\ ~Consumed) => printing_number)
    /\ (printing_number ~> ~printing_number)
    /\ [][(~printing_number /\ last_call' # "print_number") => ~printing_number']_vars

\* C16 witness: a number has been printed and printing_number() is false again
C16_Witness ==
    /\ printed = <<105>>
    /\ AfterUpdate
    /\ ~printing_number
    /\ Consumed

----------------------------------------------------------------------------
(* The charge state.                                                       *)

\* C17: whatever the two raw classifications are, get_definite_charge_state
\* returns CHARGING, CHARGED or BATTERY; BATTERY only when both are BATTERY,
\* CHARGING when either is CHARGING, CHARGED for CHARGED with BATTERY in
\* either order and for CHARGED twice; the order of the reads does not matter.
C17_BatteryOnlyWhenBothAgree ==
    charge # <<>> =>
        LET val1 == get_charge_state(charge[1])
            val2 == get_charge_state(charge[2])
            result == charge[3]
        IN  /\ result \in {CHARGING, CHARGED, BATTERY}
            /\ result = BATTERY <=> (val1 = BATTERY /\ val2 = BATTERY)
            /\ (val1 = CHARGING \/ val2 = CHARGING) => result = CHARGING
            /\ ({val1, val2} = {CHARGED, BATTERY} \/ {val1, val2} = {CHARGED}) =>
                   result = CHARGED
            /\ result = combine_charge_states(val2, val1)

\* C17 witness: a first read in the charging range and a second one in the
\* middle range give CHARGING
C17_Witness ==
    /\ charge = <<127, 448, CHARGING>>
    /\ last_call = "get_definite_charge_state"

----------------------------------------------------------------------------
(* The tick scheduler.                                                     *)

\* the number of times the last update() ran the step named e
StepsRun(e) == Len(SelectSeq(events, LAMBDA x : x = e))

\* C18: the work of a tick begins at least ms_delay ms after the work of the
\* tick before it began (after init_hardware, for the first tick).
C18_NeverEarly ==
    AfterUpdate => gap >= ms_delay

\* C18 witness: application code ran for ms_delay - 1 ms and update() waited
\* for the one ms that was missing
C18_Witness ==
    /\ AfterUpdate
    /\ waited = 1
    /\ gap = ms_delay

\* C19: an update() that finds ms_delay or more elapsed does not wait and
\* runs the steps of one tick, once; the tick after it begins at least
\* ms_delay ms after the late tick began.
C19_NoCatchUp ==
    AfterUpdate =>
        /\ late => (waited = 0 /\ StepsRun("read_button") = 1 /\ StepsRun("adjust_light") = 1)
        /\ prev_late => (gap >= ms_delay /\ waited = Max(0, ms_delay - (gap - waited)))

\* C19 witness: the tick after a tick that began 2 * ms_delay + 5 ms late has
\* waited a whole ms_delay
C19_Witness ==
    /\ AfterUpdate
    /\ prev_late
    /\ ~late
    /\ waited = ms_delay
    /\ gap = ms_delay

----------------------------------------------------------------------------
(* The ramp counter.                                                       *)

\* C20: between two set_light calls change_done never decreases from one
\* tick to the next and never exceeds change_duration.
C20_DoneWithinDuration ==
    /\ [](change_done <= change_duration)
    /\ [][last_call' = "update" => change_done' >= change_done]_vars

\* C20 amended: between two set_light calls of a ramp of non-negative
\* duration change_done never decreases from one tick to the next and never
\* exceeds change_duration + 1, the value at which adjust_light stops writing.
C20_DoneWithinDurationPlusOne ==
    /\ [](change_duration >= 0 => change_done <= change_duration + 1)
    /\ [][last_call' = "update" => change_done' >= change_done]_vars

\* C20 witness: a ramp of 4 ticks is over and the lowered ceiling makes every
\* tick write: change_done is back at 5 after the tick
C20_Witness ==
    /\ AfterUpdate
    /\ set_light_calls >= 1
    /\ change_duration = 4
    /\ change_done = 5
    /\ safe_light_level < MAX_LEVEL
    /\ WroteLight

----------------------------------------------------------------------------
(* The order of the steps of update().                                     *)

\* the steps of the last update() that are components of the tick: the wait,
\* the button, the LEDs, the number printer, the thermal sensor, the ceiling,
\* the accelerometer and the ramp
ComponentSteps ==
    SelectSeq(events,
              LAMBDA e : e \in {"wait", "read_button", "adjust_leds", "update_number",
                                "read_thermal_sensor", "overheat_protection",
                                "read_accelerometer_vector", "adjust_light"})

\* C21: every update() runs each component once, in the order wait, button
\* read, LED advance, number printer step, thermal reading and ceiling
\* update, accelerometer read, ramp step: the ceiling update comes before the
\* accelerometer read and before the actuator write of the tick.
C21_CeilingBeforeAccelerometer ==
    AfterUpdate =>
        /\ ComponentSteps = <<"wait", "read_button", "adjust_leds", "update_number",
                              "read_thermal_sensor", "overheat_protection",
                              "read_accelerometer_vector", "adjust_light">>
        /\ WroteLight => events[Len(events)] = "set_light_level"

\* C21 amended: every update() runs each component once, in the order wait,
\* button read, LED advance, number printer step, thermal reading,
\* accelerometer read, ceiling update, ramp step: the ceiling update comes
\* after the accelerometer read and before the actuator write of the tick,
\* which is the last step and is within the new ceiling.
C21_CeilingAfterAccelerometer ==
    AfterUpdate =>
        /\ ComponentSteps = <<"wait", "read_button", "adjust_leds", "update_number",
                              "read_thermal_sensor", "read_accelerometer_vector",
                              "overheat_protection", "adjust_light">>
        /\ WroteLight =>
               /\ events[Len(events)] = "set_light_level"
               /\ light_written[1] = 0
               /\ light_written[2] <= safe_light_level

\* C21 witness: an update() has lowered the ceiling, combined two
\* accelerometer samples into down and written the light
C21_Witness ==
    /\ AfterUpdate
    /\ WroteLight
    /\ safe_light_level < MAX_LEVEL
    /\ down_written
    /\ stale_axes = {}

----------------------------------------------------------------------------
(* The reset of time_held.                                                 *)

\* C22: time_held goes from a nonzero value to 0 only in an update() that
\* reads the button not pressed and that starts with released already set,
\* the flag having been set by an earlier tick that read not pressed.
C22_ResetOnlyAfterReleaseSeen ==
    [][(time_held # 0 /\ time_held' = 0) =>
          /\ released
          /\ release_run >= 1
          /\ release_run' >= 2
          /\ last_call' = "update"]_vars

\* C22 witness: the second not-pressed tick after a press of two ticks or
\* more has just reset time_held.
C22_Witness ==
    /\ AfterUpdate
    /\ press_run >= 2 /\ release_run = 2
    /\ released /\ time_held = 0

----------------------------------------------------------------------------
(* A release of a single tick inside a press.                              *)

\* C27: N pressed ticks, exactly one not-pressed tick, then M pressed ticks:
\* the single not-pressed tick ends with button_released() true, time_held
\* goes on counting from N during the second run, and at the end of the
\* first not-pressed tick after it button_held() is (N+M)*ms_delay.
C27_SingleTickReleaseKeepsCount ==
    (press_run >= 1 /\ held_at_press >= 1) =>
        /\ released_at_press
        /\ release_run = 0 => time_held = held_at_press + press_run
        /\ release_run = 1 =>
              /\ button_released
              /\ button_held = (held_at_press + press_run) * ms_delay

\* C27 witness: two pressed ticks, one not-pressed tick, three pressed ticks
\* and the release: five ticks are reported.
C27_Witness ==
    /\ AfterUpdate
    /\ held_at_press = 2 /\ released_at_press
    /\ press_run = 3 /\ release_run = 1
    /\ button_released /\ button_held = 5 * ms_delay

----------------------------------------------------------------------------
(* The accelerometer read.                                                 *)

\* C23: when an axis byte is not available or has its alert bit set,
\* read_accelerometer_vector reads that axis again within the same tick, so
\* after the call every component of new_vector comes from this tick's read
\* and none is left over from an earlier sample.
C23_NoStaleComponent ==
    AfterUpdate => stale_axes = {}

\* C24: read_accelerometer_vector changes down only on a read after which
\* both new_magnitude and old_magnitude are within 0.1 g of 1 g; every other
\* read leaves down as it was.
C24_DownOnlyWhenStationary ==
    /\ [](AfterUpdate =>
            (down_written <=> (near_one_g(new_magnitude) /\ near_one_g(old_magnitude))))
    /\ [][down' # down =>
            /\ down_written'
            /\ near_one_g(new_magnitude') /\ near_one_g(old_magnitude')
            /\ down' = [sum |-> sum_vectors(new_vector', old_vector'),
                        new_magnitude |-> new_magnitude',
                        old_magnitude |-> old_magnitude']]_vars

\* C24 witness: down was computed at rest, the light was then moved, and the
\* last read is near 1 g again while the one before is not: down is kept.
C24_Witness ==
    /\ AfterUpdate
    /\ ~down_written
    /\ down.sum = <<0, 0, 42>>
    /\ near_one_g(new_magnitude) /\ ~near_one_g(old_magnitude)

----------------------------------------------------------------------------
(* The drive mode and the duty of every level.                             *)

\* C25: for every level in 0..1000 set_light_level selects the low drive
\* mode when level <= 500 and the high drive mode when level > 500, where
\* the duty is the second cubic evaluated on level - 500, and the duty it
\* writes, truncated to an integer, is within 0..255.
C25_ModeAndDutyByLevel ==
    (WroteLight /\ light_written[1] = 0 /\ light_written[2] \in 0..MAX_LEVEL) =>
        LET level == light_written[2]
        IN  /\ level <= 500 => pins.drv_mode = "LOW"
            /\ (level >= 1 /\ level <= 500) => pins.drv_en = LowDuty(level)
            /\ level > 500 =>
                  /\ pins.drv_mode = "HIGH"
                  /\ pins.drv_en = HighDuty(level - 500)
            /\ pins.drv_en \in 0..255

\* C25 witness: level 501, the first of the high range, has been written
\* with the duty of the second cubic at 1.
C25_Witness ==
    /\ AfterUpdate /\ WroteLight
    /\ light_written = <<0, 501>>
    /\ pins.drv_mode = "HIGH"
    /\ pins.drv_en = 44

----------------------------------------------------------------------------
(* The level on the actuator once the ramp is over.                        *)

\* C26: whenever the ramp has completed (change_done > change_duration) at
\* the end of an update(), the level most recently written to the actuator
\* equals get_safe_light_level(); in particular, once the ceiling has come
\* back to MAX_LEVEL after a drop, the recovered level has been written.
C26_WrittenIsSafeLevelWhenDone ==
    (AfterUpdate /\ change_done > change_duration) =>
        light_written = ToUnsignedLong(SafeLevel)

----------------------------------------------------------------------------
(* The red LED and the button share a pin.                                 *)

\* every _led_on and _led_off call of the last update() on channel i, the
\* one update() makes itself included
AllLedWrites(i) ==
    SelectSeq(events, LAMBDA e : e \in {LedOnCall(i), LedOffCall(i)})

\* channel i is in the ON countdown of the set_led call that armed it
InOnCountdown(i) ==
    /\ led_armed[i].on >= 1
    /\ led_armed[i].ticks >= 1
    /\ led_armed[i].ticks <= led_armed[i].on

\* C28: in every update() the red LED is switched off before the button pin
\* is sampled, whatever the state of the red channel, and no write of the
\* red LED comes between the two; a red channel in its ON countdown gets an
\* OFF write followed by an ON write in every tick, and the green channel
\* gets no OFF write during its ON countdown.
C28_RedOffBeforeButtonRead ==
    AfterUpdate =>
        /\ \E p \in 1..(Len(events) - 1) :
              /\ events[p] = "_led_off(RLED)"
              /\ events[p + 1] = "read_button"
              /\ \A q \in 1..Len(events) : events[q] = "read_button" => q = p + 1
        /\ InOnCountdown(RLED) =>
              AllLedWrites(RLED) = <<"_led_off(RLED)", "_led_on(RLED)">>
        /\ InOnCountdown(GLED) =>
              AllLedWrites(GLED) = <<"_led_on(GLED)">>

\* C28 witness: both channels are in the second tick of an ON countdown of
\* three ticks; the red LED was switched off, the button read, and the red
\* LED switched on again.
C28_Witness ==
    /\ AfterUpdate
    /\ led_armed[RLED].on = 3 /\ led_armed[RLED].ticks = 2
    /\ led_armed[GLED].on = 3 /\ led_armed[GLED].ticks = 2
    /\ AllLedWrites(RLED) = <<"_led_off(RLED)", "_led_on(RLED)">>
    /\ LedLit(RLED) /\ LedLit(GLED)

----------------------------------------------------------------------------
(* print_number(0).                                                        *)

\* C29: print_number(0) arms no LED blink at all: it leaves the marker 1 as
\* the remaining value, the first tick replaces it by the final pause of
\* 2500 ms, printing_number() is true during the pause, and it then becomes
\* false without any LED having been set.
C29_ZeroPrintsOnlyThePause ==
    /\ [](printed = <<0>> =>
            /\ blinks = <<>>
            /\ \A i \in LEDS : led_on_time[i] = 0 - 1 /\ LedDark(i)
            /\ last_call = "print_number" => (_number = 1 /\ printing_number)
            /\ AfterUpdate =>
                  /\ _number = 0
                  /\ print_wait_time =
                        CDiv(2500, ms_delay) - Min(pause_ticks, CDiv(2500, ms_delay))
                  /\ printing_number <=> pause_ticks < CDiv(2500, ms_delay))
    /\ ((printed = <<0>> /\ printing_number)
            ~> (printed = <<0>> /\ ~printing_number /\ blinks = <<>>))

\* C29 witness: the pause after print_number(0) has just run out.
C29_Witness ==
    /\ printed = <<0>>
    /\ AfterUpdate
    /\ pause_ticks = CDiv(2500, ms_delay)
    /\ ~printing_number
    /\ blinks = <<>>

====
